---- MODULE Spec2Model ----
(***************************************************************************)
(* Session handling of the uba-backend dashboard front end.                *)
(*                                                                         *)
(* Two independent implementations live in the repository and are modelled *)
(* as two specifications over one set of variables:                        *)
(*                                                                         *)
(*   Spec      the React context AuthProvider (contexts/AuthContext):      *)
(*             state user/token/loading/error, the two effects on [token], *)
(*             login, register, logout, and the completions of the axios   *)
(*             calls of api/auth.ts.                                       *)
(*   AuthSpec  the standalone module frontend/src/auth.ts: saveUser,       *)
(*             loginUser, registerUser, logout, fetchUserProfile and the   *)
(*             queries getToken/isAuthenticated/getCurrentUser/isAdmin,    *)
(*             over localStorage and the apiRequest helper.                *)
(*                                                                         *)
(* JavaScript null is the string Null; a missing localStorage item and a   *)
(* missing header are Null too.  The user record null is NoUser.           *)
(*                                                                         *)
(* React scheduling: state setters called in one handler or continuation   *)
(* are committed together; the passive effects of a commit whose token     *)
(* differs from the previous commit's run as a step of their own           *)
(* (RunEffects), and React runs the pending effects of a commit before it  *)
(* processes any later update, so every other step waits for them.         *)
(***************************************************************************)
EXTENDS Integers, Sequences, FiniteSets, TLC

VARIABLES
    user,            \* AuthProvider: useState<User | null>
    token,           \* AuthProvider: useState<string | null>
    loading,         \* AuthProvider: useState(true)
    error,           \* AuthProvider: useState<string | null>
    effectsPending,  \* the [token] effects of the last commit have not run yet
    hdr,             \* axios.defaults.headers.common['Authorization']
    calls,           \* axios calls in flight, by slot
    localStorage,    \* browser storage: the items 'token' and 'user'
    mcalls,          \* auth.ts: apiRequest calls in flight, by slot
    href,            \* auth.ts: where logout sent the navigation layer
    gate,            \* auth.ts withAuth: what the wrapper shows
    gateUser,        \* auth.ts withAuth: useState<User | null>
    activeTab,       \* FileConverter: useState<ConversionType>
    files,           \* FileConverter: useState<FileWithPreview[]>
    isConverting,    \* FileConverter: useState(false)
    fcError,         \* FileConverter: useState<string | null> (error)
    timers,          \* FileConverter: setTimeout callbacks not yet run, by slot
    fcLast,          \* history: the FileConverter step taken last
    phase,           \* history: what has happened to the session since startup
    last             \* history: the step taken last, with its payload

provVars == <<user, token, loading, error, effectsPending, hdr, calls>>
fcVars == <<activeTab, files, isConverting, fcError, timers, fcLast>>
sessVars == <<provVars, localStorage, mcalls, href, gate, gateUser, phase, last>>
vars == <<user, token, loading, error, effectsPending, hdr, calls,
          localStorage, mcalls, href, gate, gateUser, phase, last,
          activeTab, files, isConverting, fcError, timers, fcLast>>

(***************************************************************************)
(* Bounds and value domains                                                *)
(***************************************************************************)
MaxInFlight == 2

\* files in the list, and setTimeout callbacks pending, at one time
MaxFiles == 2

MaxTimers == 2

Slots == 1..MaxInFlight

Null == "null"

Tokens == {"tok1", "tok2"}

User1 == [id |-> 1, credits |-> 5, is_admin |-> FALSE]

User2 == [id |-> 2, credits |-> 0, is_admin |-> TRUE]

Users == {User1, User2}

NoUser == [id |-> 0, credits |-> 0, is_admin |-> FALSE]

\* message field of a failure payload: missing, empty, or a text
Messages == {Null, "", "Invalid credentials"}

\* JavaScript truthiness of a string-or-null value
Truthy(s) == s # Null /\ s # ""

Bearer(t) == "Bearer " \o t

\* startup: history, the call is the profile fetch of the mount effects
NoCall == [kind |-> "none", tok |-> Null, auth |-> Null, stale |-> FALSE,
           startup |-> FALSE]

Free(cs) == {i \in Slots : cs[i].kind = "none"}

FirstFree(cs) == CHOOSE i \in Free(cs) : \A j \in Free(cs) : i <= j

\* payload: the message field of the failure payload, for a failed call
Event(op, t, u, m, s) ==
    [op |-> op, tok |-> t, user |-> u, msg |-> m, stale |-> s, payload |-> Null]

TimerSlots == 1..MaxTimers

\* JavaScript undefined
Undefined == "undefined"

\* no callback pending in the slot
NoTimer == [kind |-> "none", newFiles |-> <<>>, tab |-> Undefined, rem |-> 0,
            stale |-> FALSE]

\* the useState initial values of FileConverter
FileConverterInit ==
    /\ activeTab = "pdf-to-docx"
    /\ files = <<>>
    /\ isConverting = FALSE
    /\ fcError = Null
    /\ timers = [i \in TimerSlots |-> NoTimer]
    /\ fcLast = [op |-> "init", stale |-> FALSE]

(***************************************************************************)
(* AuthProvider                                                            *)
(***************************************************************************)

\* api/auth.ts: login and register post with the axios defaults
AxiosPost(kind) ==
    [kind |-> kind, tok |-> Null, auth |-> hdr, stale |-> FALSE, startup |-> FALSE]

\* api/auth.ts getCurrentUser(token): the request names its own header
apiGetCurrentUser(t) ==
    [kind |-> "me", tok |-> t, auth |-> Bearer(t), stale |-> FALSE,
     startup |-> (phase = "boot")]

\* variant: the header is set but never deleted
TokenEffectHeader_KeepsOnClear(t) == IF Truthy(t) THEN Bearer(t) ELSE hdr

\* variant: the item is written but never removed
TokenEffectStorage_KeepsOnClear(t) ==
    IF Truthy(t) THEN [localStorage EXCEPT !.token = t] ELSE localStorage

\* first effect on [token]: storage and the axios default header
TokenEffectStorage(t) ==
    IF Truthy(t) THEN [localStorage EXCEPT !.token = t]
    ELSE [localStorage EXCEPT !.token = Null]

\* (the header half of the first effect)
TokenEffectHeader(t) == IF Truthy(t) THEN Bearer(t) ELSE Null

\* variant: the profile is requested whether or not there is a token
loadUser_Always(t) ==
    /\ calls' = [calls EXCEPT ![FirstFree(calls)] = apiGetCurrentUser(t)]
    /\ loading' = loading

\* variant: without a token loadUser returns before setLoading(false)
loadUser_NoReady(t) ==
    IF Truthy(t)
    THEN /\ calls' = [calls EXCEPT ![FirstFree(calls)] = apiGetCurrentUser(t)]
         /\ loading' = loading
    ELSE /\ calls' = calls
         /\ loading' = loading

\* second effect on [token]: loadUser up to its first await
loadUser(t) ==
    IF Truthy(t)
    THEN /\ calls' = [calls EXCEPT ![FirstFree(calls)] = apiGetCurrentUser(t)]
         /\ loading' = loading
    ELSE /\ calls' = calls
         /\ loading' = FALSE

RunEffects ==
    /\ effectsPending
    /\ localStorage' = TokenEffectStorage(token)
    /\ hdr' = TokenEffectHeader(token)
    /\ loadUser(token)
    /\ effectsPending' = FALSE
    /\ phase' = IF phase = "boot"
                THEN (IF Truthy(token) THEN "restoring" ELSE "fresh")
                ELSE phase
    /\ last' = Event("effects", token, NoUser, Null, FALSE)
    /\ UNCHANGED <<user, token, error, mcalls, href, gate, gateUser, fcVars>>

\* variant: the fetched profile is not stored
MeResolved_DropsProfile(i, userData) ==
    /\ ~effectsPending
    /\ calls[i].kind = "me"
    /\ user' = user
    /\ loading' = FALSE
    /\ calls' = [calls EXCEPT ![i] = NoCall]
    /\ phase' = IF phase = "restoring" THEN "restored" ELSE phase
    /\ last' = Event("meOk", calls[i].tok, userData, Null, calls[i].stale)
    /\ UNCHANGED <<token, error, effectsPending, hdr, localStorage, mcalls, href, gate, gateUser, fcVars>>

\* loadUser after its await: the profile arrived
MeResolved(i, userData) ==
    /\ ~effectsPending
    /\ calls[i].kind = "me"
    /\ user' = userData
    /\ loading' = FALSE
    /\ calls' = [calls EXCEPT ![i] = NoCall]
    /\ phase' = IF phase = "restoring" THEN "restored" ELSE phase
    /\ last' = Event("meOk", calls[i].tok, userData, Null, calls[i].stale)
    /\ UNCHANGED <<token, error, effectsPending, hdr, localStorage, mcalls, href, gate, gateUser, fcVars>>

\* variant: the catch block only logs
loadUserCatch_KeepsToken == token' = token /\ user' = user

\* loadUser after its await: the profile call failed (the catch block)
loadUserCatch == token' = Null /\ user' = user

\* variant: a failed profile call is sent again
MeRejected_Retries(i) ==
    /\ ~effectsPending
    /\ calls[i].kind = "me"
    /\ phase' = IF phase = "restoring" THEN "restoreFailed" ELSE phase
    /\ last' = Event("meFail", calls[i].tok, NoUser, Null, calls[i].stale)
    /\ UNCHANGED <<user, token, loading, effectsPending, calls, error, hdr,
                   localStorage, mcalls, href, gate, gateUser, fcVars>>

\* variant: the catch block reports the failure through error
MeRejected_SetsError(i) ==
    /\ ~effectsPending
    /\ calls[i].kind = "me"
    /\ loadUserCatch
    /\ error' = "Failed to load user"
    /\ loading' = FALSE
    /\ effectsPending' = (token' # token)
    /\ calls' = [calls EXCEPT ![i] = NoCall]
    /\ phase' = IF phase = "restoring" THEN "restoreFailed" ELSE phase
    /\ last' = Event("meFail", calls[i].tok, NoUser, Null, calls[i].stale)
    /\ UNCHANGED <<hdr, localStorage, mcalls, href, gate, gateUser, fcVars>>

\* loadUser after its await: the profile call failed
MeRejected(i) ==
    /\ ~effectsPending
    /\ calls[i].kind = "me"
    /\ loadUserCatch
    /\ loading' = FALSE
    /\ effectsPending' = (token' # token)
    /\ calls' = [calls EXCEPT ![i] = NoCall]
    /\ phase' = IF phase = "restoring" THEN "restoreFailed" ELSE phase
    /\ last' = Event("meFail", calls[i].tok, NoUser, Null, calls[i].stale)
    /\ UNCHANGED <<error, hdr, localStorage, mcalls, href, gate, gateUser, fcVars>>

\* variant: the user of the response is dropped
handleAuthResponse_TokenOnly(response) ==
    /\ token' = response.token
    /\ user' = user

handleAuthResponse(response) ==
    /\ token' = response.token
    /\ user' = response.user

\* variant: the message of the payload is used as it is
ErrorMessage_NoFallback(m, fallback) == m

\* err.response?.data?.message || fallback
ErrorMessage(m, fallback) == IF Truthy(m) THEN m ELSE fallback

\* login / register up to the await: setLoading(true); setError(null); post
StartCall(kind) ==
    /\ ~effectsPending
    /\ Free(calls) # {}
    /\ loading' = TRUE
    /\ error' = Null
    /\ calls' = [calls EXCEPT ![FirstFree(calls)] = AxiosPost(kind)]
    /\ phase' = "used"
    /\ last' = Event(kind, Null, NoUser, Null, FALSE)
    /\ UNCHANGED <<user, token, effectsPending, hdr, localStorage, mcalls, href, gate, gateUser, fcVars>>

login == StartCall("login")

register == StartCall("register")

\* variant: register stores the token of the response but not its user
AuthResolved_RegisterKeepsUser(i, response) ==
    /\ ~effectsPending
    /\ calls[i].kind \in {"login", "register"}
    /\ token' = response.token
    /\ user' = IF calls[i].kind = "register" THEN user ELSE response.user
    /\ loading' = FALSE
    /\ effectsPending' = (token' # token)
    /\ calls' = [calls EXCEPT ![i] = NoCall]
    /\ last' = Event(calls[i].kind \o "Ok", response.token, response.user, Null,
                     calls[i].stale)
    /\ UNCHANGED <<error, hdr, localStorage, mcalls, href, gate, gateUser, phase, fcVars>>

\* the awaited post resolved: handleAuthResponse, then finally setLoading(false)
AuthResolved(i, response) ==
    /\ ~effectsPending
    /\ calls[i].kind \in {"login", "register"}
    /\ handleAuthResponse(response)
    /\ loading' = FALSE
    /\ effectsPending' = (token' # token)
    /\ calls' = [calls EXCEPT ![i] = NoCall]
    /\ last' = Event(calls[i].kind \o "Ok", response.token, response.user, Null,
                     calls[i].stale)
    /\ UNCHANGED <<error, hdr, localStorage, mcalls, href, gate, gateUser, phase, fcVars>>

\* variant: a failed call ends the session
AuthRejectedState_ClearsSession(msg) ==
    /\ error' = msg
    /\ token' = Null
    /\ user' = NoUser
    /\ effectsPending' = (token # Null)
    /\ UNCHANGED <<hdr, localStorage>>

\* the awaited post rejected: the catch block, then finally setLoading(false)
AuthRejectedState(msg) ==
    /\ error' = msg
    /\ UNCHANGED <<user, token, effectsPending, hdr, localStorage>>

Fallback(kind) == IF kind = "login" THEN "Login failed" ELSE "Registration failed"

AuthRejected(i, m) ==
    /\ ~effectsPending
    /\ calls[i].kind \in {"login", "register"}
    /\ AuthRejectedState(ErrorMessage(m, Fallback(calls[i].kind)))
    /\ loading' = FALSE
    /\ calls' = [calls EXCEPT ![i] = NoCall]
    /\ last' = [Event(calls[i].kind \o "Fail", Null, NoUser,
                      ErrorMessage(m, Fallback(calls[i].kind)), calls[i].stale)
                    EXCEPT !.payload = m]
    /\ UNCHANGED <<mcalls, href, gate, gateUser, phase, fcVars>>

\* variant: storage is left to the token effect
logoutState_NoStorage ==
    /\ token' = Null
    /\ user' = NoUser
    /\ localStorage' = localStorage

logoutState ==
    /\ token' = Null
    /\ user' = NoUser
    /\ localStorage' = [localStorage EXCEPT !.token = Null]

logout ==
    /\ ~effectsPending
    /\ logoutState
    /\ effectsPending' = (token' # token)
    /\ calls' = [i \in Slots |->
                   IF calls[i].kind = "none" THEN NoCall
                   ELSE [calls[i] EXCEPT !.stale = TRUE]]
    /\ phase' = "used"
    /\ last' = Event("logout", token, user, Null, FALSE)
    /\ UNCHANGED <<loading, error, hdr, mcalls, href, gate, gateUser, fcVars>>

\* variant: the handler leaves the location alone
handleLogout_NoNavigate ==
    /\ ~effectsPending
    /\ logoutState
    /\ effectsPending' = (token' # token)
    /\ calls' = [i \in Slots |->
                   IF calls[i].kind = "none" THEN NoCall
                   ELSE [calls[i] EXCEPT !.stale = TRUE]]
    /\ href' = href
    /\ phase' = "used"
    /\ last' = Event("handleLogout", token, user, Null, FALSE)
    /\ UNCHANGED <<loading, error, hdr, mcalls, gate, gateUser, fcVars>>

\* Layout.handleLogout: the context's logout(), then navigate('/login')
handleLogout ==
    /\ ~effectsPending
    /\ logoutState
    /\ effectsPending' = (token' # token)
    /\ calls' = [i \in Slots |->
                   IF calls[i].kind = "none" THEN NoCall
                   ELSE [calls[i] EXCEPT !.stale = TRUE]]
    /\ href' = "/login"
    /\ phase' = "used"
    /\ last' = Event("handleLogout", token, user, Null, FALSE)
    /\ UNCHANGED <<loading, error, hdr, mcalls, gate, gateUser, fcVars>>

\* what the consumers of the context read: user?.is_admin
userIsAdmin == user # NoUser /\ user.is_admin = TRUE

Init ==
    /\ user = NoUser
    /\ \E t \in Tokens \cup {Null} :
          /\ localStorage = [token |-> t, user |-> Null]
          /\ token = t
    /\ loading = TRUE
    /\ error = Null
    /\ effectsPending = TRUE
    /\ hdr = Null
    /\ calls = [i \in Slots |-> NoCall]
    /\ mcalls = [i \in Slots |-> NoCall]
    /\ href = Null
    /\ gate = "unmounted"
    /\ gateUser = NoUser
    /\ FileConverterInit
    /\ phase = "boot"
    /\ last = Event("init", Null, NoUser, Null, FALSE)

Next ==
    \/ RunEffects
    \/ \E i \in Slots, u \in Users : MeResolved(i, u)
    \/ \E i \in Slots : MeRejected(i)
    \/ login
    \/ register
    \/ \E i \in Slots, t \in Tokens, u \in Users :
          AuthResolved(i, [token |-> t, user |-> u])
    \/ \E i \in Slots, m \in Messages : AuthRejected(i, m)
    \/ logout
    \/ handleLogout

Spec == Init /\ [][Next]_vars

\* the transport reports the outcome of the call in slot i, one way or the other
Complete(i) ==
    \/ \E u \in Users : MeResolved(i, u)
    \/ MeRejected(i)
    \/ \E t \in Tokens, u \in Users : AuthResolved(i, [token |-> t, user |-> u])
    \/ \E m \in Messages : AuthRejected(i, m)

\* React runs pending effects, and every issued call completes
FairSpec ==
    /\ Spec
    /\ WF_vars(RunEffects)
    /\ \A i \in Slots : WF_vars(Complete(i))

(***************************************************************************)
(* The standalone module frontend/src/auth.ts over the apiRequest helper   *)
(***************************************************************************)

\* JSON.stringify / JSON.parse of a user record
JSONstringify(u) ==
    "{id:" \o ToString(u.id) \o ",credits:" \o ToString(u.credits)
        \o ",is_admin:" \o (IF u.is_admin THEN "true" ELSE "false") \o "}"

JSONparse(s) == CHOOSE u \in Users : JSONstringify(u) = s

\* apiRequest: the token is read from storage when the call is made
apiRequest(kind) ==
    [kind |-> kind, tok |-> Null,
     auth |-> IF Truthy(localStorage.token) THEN Bearer(localStorage.token) ELSE Null,
     stale |-> FALSE, startup |-> FALSE]

\* variant: only the token is stored
saveUser_TokenOnly(userData) ==
    IF Truthy(userData.token)
    THEN [localStorage EXCEPT !.token = userData.token]
    ELSE localStorage

\* saveUser: if (userData.token), both items are written
saveUser(userData) ==
    IF Truthy(userData.token)
    THEN [token |-> userData.token, user |-> JSONstringify(userData.user)]
    ELSE localStorage

getCurrentUser ==
    IF Truthy(localStorage.user) THEN JSONparse(localStorage.user) ELSE NoUser

getToken == localStorage.token

isAuthenticated == Truthy(getToken)

\* variant: user?.is_admin !== false
isAdmin_NotFalse == getCurrentUser = NoUser \/ getCurrentUser.is_admin = TRUE

isAdmin == getCurrentUser # NoUser /\ getCurrentUser.is_admin = TRUE

\* loginUser / registerUser / fetchUserProfile up to the await
StartRequest(kind) ==
    /\ Free(mcalls) # {}
    /\ mcalls' = [mcalls EXCEPT ![FirstFree(mcalls)] = apiRequest(kind)]
    /\ last' = Event(kind, Null, NoUser, Null, FALSE)
    /\ UNCHANGED <<localStorage, href, gate, gateUser, provVars, phase, fcVars>>

loginUser == StartRequest("loginUser")

registerUser == StartRequest("registerUser")

fetchUserProfile == StartRequest("fetchUserProfile")

\* loginUser / registerUser after the await: saveUser(response)
SaveResolved(i, response) ==
    /\ mcalls[i].kind \in {"loginUser", "registerUser"}
    /\ localStorage' = saveUser(response)
    /\ mcalls' = [mcalls EXCEPT ![i] = NoCall]
    /\ last' = Event(mcalls[i].kind \o "Ok", response.token, response.user, Null,
                     mcalls[i].stale)
    /\ UNCHANGED <<href, gate, gateUser, provVars, phase, fcVars>>

\* the request threw: loginUser / registerUser reject, nothing is stored
SaveRejected(i, m) ==
    /\ mcalls[i].kind \in {"loginUser", "registerUser"}
    /\ mcalls' = [mcalls EXCEPT ![i] = NoCall]
    /\ last' = Event(mcalls[i].kind \o "Fail", Null, NoUser,
                     ErrorMessage(m, "Something went wrong"), mcalls[i].stale)
    /\ UNCHANGED <<localStorage, href, gate, gateUser, provVars, phase, fcVars>>

\* logout(navigate?): both items removed, navigation to /login either way
moduleLogoutState ==
    /\ localStorage' = [token |-> Null, user |-> Null]
    /\ href' = "/login"

moduleLogout ==
    /\ moduleLogoutState
    /\ mcalls' = [i \in Slots |->
                    IF mcalls[i].kind = "none" THEN NoCall
                    ELSE [mcalls[i] EXCEPT !.stale = TRUE]]
    /\ last' = Event("logout", localStorage.token, getCurrentUser, Null, FALSE)
    /\ UNCHANGED <<gate, gateUser, provVars, phase, fcVars>>

\* fetchUserProfile after the await: if (user) setItem('user', ...)
storeProfile(u) ==
    IF u # NoUser THEN [localStorage EXCEPT !.user = JSONstringify(u)]
    ELSE localStorage

\* GET /users/me answers with a record only to a request that carried a token
ProfileResolved(i, u) ==
    /\ mcalls[i].kind = "fetchUserProfile"
    /\ Truthy(mcalls[i].auth)
    /\ localStorage' = storeProfile(u)
    /\ mcalls' = [mcalls EXCEPT ![i] = NoCall]
    /\ last' = Event("fetchUserProfileOk", Null, u, Null, mcalls[i].stale)
    /\ UNCHANGED <<href, gate, gateUser, provVars, phase, fcVars>>

\* fetchUserProfile's catch: logout() without a navigate function
ProfileRejected(i) ==
    /\ mcalls[i].kind = "fetchUserProfile"
    /\ moduleLogoutState
    /\ mcalls' = [j \in Slots |->
                    IF j = i \/ mcalls[j].kind = "none" THEN NoCall
                    ELSE [mcalls[j] EXCEPT !.stale = TRUE]]
    /\ last' = Event("fetchUserProfileFail", Null, NoUser, Null, mcalls[i].stale)
    /\ UNCHANGED <<gate, gateUser, provVars, phase, fcVars>>

\* convertFile up to the await: the header is `Bearer ${token}` whatever
\* getItem returned, and the template prints null as the text null
convertFileRequest ==
    [kind |-> "convertFile", tok |-> Null, auth |-> Bearer(localStorage.token),
     stale |-> FALSE, startup |-> FALSE]

convertFile ==
    /\ Free(mcalls) # {}
    /\ mcalls' = [mcalls EXCEPT ![FirstFree(mcalls)] = convertFileRequest]
    /\ last' = Event("convertFile", localStorage.token, NoUser, Null, FALSE)
    /\ UNCHANGED <<localStorage, href, gate, gateUser, provVars, phase, fcVars>>

\* convertFile after the await: the blob is returned or the error thrown
ConvertSettled(i, m) ==
    /\ mcalls[i].kind = "convertFile"
    /\ mcalls' = [mcalls EXCEPT ![i] = NoCall]
    /\ last' = IF m = "ok"
               THEN Event("convertFileOk", Null, NoUser, Null, mcalls[i].stale)
               ELSE Event("convertFileFail", Null, NoUser,
                          ErrorMessage(m, "File conversion failed"), mcalls[i].stale)
    /\ UNCHANGED <<localStorage, href, gate, gateUser, provVars, phase, fcVars>>

(***************************************************************************)
(* withAuth: the wrapper shows 'Loading...' while isLoading ("pending") and *)
(* the wrapped component afterwards ("content")                            *)
(***************************************************************************)

\* variant: isLoading starts false, the wrapped component shows at once
checkAuth_NoPending ==
    /\ gate = "unmounted"
    /\ gate' = "content"
    /\ gateUser' = NoUser
    /\ IF ~isAuthenticated
       THEN /\ href' = "/login"
            /\ mcalls' = mcalls
       ELSE /\ Free(mcalls) # {}
            /\ mcalls' = [mcalls EXCEPT ![FirstFree(mcalls)] = apiRequest("checkAuth")]
            /\ href' = href
    /\ last' = Event("checkAuth", localStorage.token, NoUser, Null, FALSE)
    /\ UNCHANGED <<localStorage, provVars, phase, fcVars>>

\* mount and checkAuth up to its return or its await
checkAuth ==
    /\ gate = "unmounted"
    /\ gate' = "pending"
    /\ gateUser' = NoUser
    /\ IF ~isAuthenticated
       THEN /\ href' = "/login"
            /\ mcalls' = mcalls
       ELSE /\ Free(mcalls) # {}
            /\ mcalls' = [mcalls EXCEPT ![FirstFree(mcalls)] = apiRequest("checkAuth")]
            /\ href' = href
    /\ last' = Event("checkAuth", localStorage.token, NoUser, Null, FALSE)
    /\ UNCHANGED <<localStorage, provVars, phase, fcVars>>

\* checkAuth after the await: fetchUserProfile returned the profile
CheckAuthResolved(i, u) ==
    /\ mcalls[i].kind = "checkAuth"
    /\ Truthy(mcalls[i].auth)
    /\ localStorage' = storeProfile(u)
    /\ gateUser' = IF u # NoUser THEN u ELSE gateUser
    /\ gate' = "content"
    /\ mcalls' = [mcalls EXCEPT ![i] = NoCall]
    /\ last' = Event("checkAuthOk", Null, u, Null, mcalls[i].stale)
    /\ UNCHANGED <<href, provVars, phase, fcVars>>

\* what checkAuth does with the null fetchUserProfile returns after its catch
checkAuthAfterFailure ==
    /\ gateUser' = gateUser
    /\ gate' = "content"

\* checkAuth after the await: fetchUserProfile caught the error, ran
\* logout() and returned null; finally setIsLoading(false)
CheckAuthRejected(i) ==
    /\ mcalls[i].kind = "checkAuth"
    /\ moduleLogoutState
    /\ checkAuthAfterFailure
    /\ mcalls' = [j \in Slots |->
                    IF j = i \/ mcalls[j].kind = "none" THEN NoCall
                    ELSE [mcalls[j] EXCEPT !.stale = TRUE]]
    /\ last' = Event("checkAuthFail", Null, NoUser, Null, mcalls[i].stale)
    /\ UNCHANGED <<provVars, phase, fcVars>>

\* the route changes or the page unloads: the wrapper is gone, and a
\* fetchUserProfile it left in flight only does its own work when it settles
GateUnmount ==
    /\ gate # "unmounted"
    /\ gate' = "unmounted"
    /\ gateUser' = NoUser
    /\ mcalls' = [j \in Slots |->
                    IF mcalls[j].kind = "checkAuth"
                    THEN [mcalls[j] EXCEPT !.kind = "fetchUserProfile"]
                    ELSE mcalls[j]]
    /\ last' = Event("unmount", Null, NoUser, Null, FALSE)
    /\ UNCHANGED <<localStorage, href, provVars, phase, fcVars>>

AuthInit ==
    /\ \/ localStorage = [token |-> Null, user |-> Null]
       \/ \E t \in Tokens, u \in Users :
             localStorage = [token |-> t, user |-> JSONstringify(u)]
       \* a session the AuthProvider persisted: its effect writes 'token' alone
       \/ \E t \in Tokens : localStorage = [token |-> t, user |-> Null]
    /\ mcalls = [i \in Slots |-> NoCall]
    /\ href = Null
    /\ gate = "unmounted"
    /\ gateUser = NoUser
    /\ FileConverterInit
    /\ user = NoUser
    /\ token = Null
    /\ loading = TRUE
    /\ error = Null
    /\ effectsPending = FALSE
    /\ hdr = Null
    /\ calls = [i \in Slots |-> NoCall]
    /\ phase = "module"
    /\ last = Event("init", Null, NoUser, Null, FALSE)

AuthNext ==
    \/ loginUser
    \/ registerUser
    \/ fetchUserProfile
    \/ \E i \in Slots, t \in Tokens \cup {Null}, u \in Users :
          SaveResolved(i, [token |-> t, user |-> u])
    \/ \E i \in Slots, m \in Messages : SaveRejected(i, m)
    \/ moduleLogout
    \/ \E i \in Slots, u \in Users \cup {NoUser} : ProfileResolved(i, u)
    \/ \E i \in Slots : ProfileRejected(i)
    \/ checkAuth
    \/ \E i \in Slots, u \in Users \cup {NoUser} : CheckAuthResolved(i, u)
    \/ \E i \in Slots : CheckAuthRejected(i)
    \/ GateUnmount
    \/ convertFile
    \/ \E i \in Slots, m \in Messages \cup {"ok"} : ConvertSettled(i, m)

AuthSpec == AuthInit /\ [][AuthNext]_vars

(***************************************************************************)
(* FileConverter (pages/FileConverter): the file list, the simulated       *)
(* upload (a 1000 ms timeout per drop) and the simulated conversion (a     *)
(* 2000 ms timeout per click on Convert).  Time passes in steps of half    *)
(* the shorter timeout; a callback runs when its time is up, and events    *)
(* of one instant run in any order.                                        *)
(***************************************************************************)
UploadMs == 1000

ConvertMs == 2000

Quantum == UploadMs \div 2

\* two of the keys of SUPPORTED_FORMATS, and their output
Tabs == {"pdf-to-docx", "ocr"}

Output(tab) == IF tab = "ocr" THEN ".txt" ELSE ".docx"

\* what onDrop may be handed: a File of the browser (name and size are
\* accessors of File.prototype) or an object that owns name and size; the
\* size is written as decimal text
AcceptedFile ==
    [native : BOOLEAN, name : {"a.pdf", "b.pdf"}, size : {"10"}]

RECURSIVE SeqsUpTo(_, _)
SeqsUpTo(S, n) ==
    IF n = 0 THEN {<<>>}
    ELSE SeqsUpTo(S, n - 1) \cup
         {Append(q, x) : q \in {r \in SeqsUpTo(S, n - 1) : Len(r) = n - 1}, x \in S}

\* { ...file, preview, status: 'uploading' }: the spread copies own
\* enumerable properties only
NewFile(file) ==
    [name |-> IF file.native THEN Undefined ELSE file.name,
     size |-> IF file.native THEN Undefined ELSE file.size,
     status |-> "uploading", outputFormat |-> Undefined]

FreeTimers == {i \in TimerSlots : timers[i].kind = "none"}

FirstFreeTimer == CHOOSE i \in FreeTimers : \A j \in FreeTimers : i <= j

\* acceptedFiles.map(file => ({ ...file, preview, status: 'uploading' }))
newFiles(acceptedFiles) ==
    [k \in 1..Len(acceptedFiles) |-> NewFile(acceptedFiles[k])]

\* onDrop: the new entries are appended and the upload timeout is set
onDrop(acceptedFiles) ==
    /\ Len(files) + Len(acceptedFiles) <= MaxFiles
    /\ IF Len(acceptedFiles) = 0
       THEN UNCHANGED <<files, timers>>
       ELSE /\ FreeTimers # {}
            /\ files' = files \o newFiles(acceptedFiles)
            /\ timers' = [timers EXCEPT ![FirstFreeTimer] =
                             [kind |-> "upload",
                              newFiles |-> newFiles(acceptedFiles),
                              tab |-> Undefined, rem |-> UploadMs, stale |-> FALSE]]
    /\ fcLast' = [op |-> "drop", stale |-> FALSE]
    /\ UNCHANGED <<activeTab, isConverting, fcError, sessVars>>

\* the map of the timeout callback: entries with the name and size of one
\* of the dropped files become converting
UploadedStatus(f, nfs) ==
    IF \E k \in 1..Len(nfs) :
          nfs[k].name = f.name /\ nfs[k].size = f.size
    THEN [f EXCEPT !.status = "converting"]
    ELSE f

\* the callback of onDrop's setTimeout
UploadTimeout(i) ==
    /\ timers[i].kind = "upload"
    /\ timers[i].rem = 0
    /\ files' = [k \in 1..Len(files) |-> UploadedStatus(files[k], timers[i].newFiles)]
    /\ timers' = [timers EXCEPT ![i] = NoTimer]
    /\ fcLast' = [op |-> "uploadDone", stale |-> timers[i].stale]
    /\ UNCHANGED <<activeTab, isConverting, fcError, sessVars>>

\* handleConvert up to the await; the button is there while the list has
\* entries and is disabled while isConverting
handleConvert ==
    /\ Len(files) > 0
    /\ ~isConverting
    /\ FreeTimers # {}
    /\ isConverting' = TRUE
    /\ fcError' = Null
    /\ timers' = [timers EXCEPT ![FirstFreeTimer] =
                     [kind |-> "convert", newFiles |-> <<>>, tab |-> activeTab,
                      rem |-> ConvertMs, stale |-> FALSE]]
    /\ fcLast' = [op |-> "convert", stale |-> FALSE]
    /\ UNCHANGED <<activeTab, files, sessVars>>

\* the map of handleConvert after the await, with the activeTab of the click
ConvertedFile(f, tab) ==
    [f EXCEPT !.status = "completed", !.outputFormat = Output(tab)]

\* handleConvert after the await (the awaited promise cannot reject, so the
\* catch block and the status 'error' are never reached); then finally
ConvertTimeout(i) ==
    /\ timers[i].kind = "convert"
    /\ timers[i].rem = 0
    /\ files' = [k \in 1..Len(files) |-> ConvertedFile(files[k], timers[i].tab)]
    /\ isConverting' = FALSE
    /\ timers' = [timers EXCEPT ![i] = NoTimer]
    /\ fcLast' = [op |-> "convertDone", stale |-> timers[i].stale]
    /\ UNCHANGED <<activeTab, fcError, sessVars>>

\* the remove button of an entry is disabled while it is converting
handleRemoveFile(index) ==
    /\ index \in 1..Len(files)
    /\ files[index].status # "converting"
    /\ files' = SubSeq(files, 1, index - 1) \o SubSeq(files, index + 1, Len(files))
    /\ fcLast' = [op |-> "remove", stale |-> FALSE]
    /\ UNCHANGED <<activeTab, isConverting, fcError, timers, sessVars>>

handleTabChangeFiles == <<>>

\* stale: history, the callback was pending when the tab changed
handleTabChange(tab) ==
    /\ activeTab' = tab
    /\ files' = handleTabChangeFiles
    /\ timers' = [i \in TimerSlots |->
                    IF timers[i].kind = "none" THEN NoTimer
                    ELSE [timers[i] EXCEPT !.stale = TRUE]]
    /\ fcLast' = [op |-> "tabChange", stale |-> FALSE]
    /\ UNCHANGED <<isConverting, fcError, sessVars>>

\* time passes, but not beyond the moment a pending callback is due
Elapse ==
    /\ \E i \in TimerSlots : timers[i].kind # "none"
    /\ \A i \in TimerSlots : timers[i].kind # "none" => timers[i].rem >= Quantum
    /\ timers' = [i \in TimerSlots |->
                    IF timers[i].kind = "none" THEN NoTimer
                    ELSE [timers[i] EXCEPT !.rem = @ - Quantum]]
    /\ fcLast' = [op |-> "elapse", stale |-> FALSE]
    /\ UNCHANGED <<activeTab, files, isConverting, fcError, sessVars>>

ConvInit ==
    /\ FileConverterInit
    /\ localStorage = [token |-> Null, user |-> Null]
    /\ mcalls = [i \in Slots |-> NoCall]
    /\ href = Null
    /\ gate = "unmounted"
    /\ gateUser = NoUser
    /\ user = NoUser
    /\ token = Null
    /\ loading = TRUE
    /\ error = Null
    /\ effectsPending = FALSE
    /\ hdr = Null
    /\ calls = [i \in Slots |-> NoCall]
    /\ phase = "converter"
    /\ last = Event("init", Null, NoUser, Null, FALSE)

ConvNext ==
    \/ \E acceptedFiles \in SeqsUpTo(AcceptedFile, MaxFiles) : onDrop(acceptedFiles)
    \/ \E i \in TimerSlots : UploadTimeout(i)
    \/ handleConvert
    \/ \E i \in TimerSlots : ConvertTimeout(i)
    \/ \E index \in 1..MaxFiles : handleRemoveFile(index)
    \/ \E tab \in Tabs : handleTabChange(tab)
    \/ Elapse

ConvSpec == ConvInit /\ [][ConvNext]_vars

\* position of a status in uploading, converting, completed / error
Rank(status) ==
    IF status = "uploading" THEN 0
    ELSE IF status = "converting" THEN 1
    ELSE 2

(***************************************************************************)
(* Claims                                                                  *)
(***************************************************************************)

\* C1: in every reachable state of the AuthProvider, user is present only
\* if token is present.
C1_UserOnlyWithToken == user # NoUser => Truthy(token)

\* C2: when a login whose collaborator returned {token, user} completes,
\* the token is present and is the payload's, and user is the payload's user.
C2_LoginSuccessSetsSession ==
    last.op = "loginOk" => Truthy(token) /\ token = last.tok /\ user = last.user

C2_Witness ==
    /\ last.op = "loginOk"
    /\ token = "tok2"
    /\ user = User2
    /\ phase = "used"

\* C3: a failed login leaves token, user and the persisted token as it found
\* them and rejects to its caller with a non-empty message.
C3_LoginFailureKeepsSession ==
    [][last'.op = "loginFail" =>
          /\ token' = token
          /\ user' = user
          /\ localStorage' = localStorage
          /\ Truthy(last'.msg)]_vars

C3_Witness ==
    /\ last.op = "loginFail"
    /\ last.msg = "Login failed"
    /\ Truthy(token)
    /\ user # NoUser
    /\ localStorage.token = token

\* C4: right after logout, whatever the state before, no token is held, user
\* is absent and storage holds no token.
C4_LogoutClearsSession ==
    last.op = "logout" =>
        /\ ~Truthy(token)
        /\ user = NoUser
        /\ localStorage.token = Null

C4_Witness ==
    /\ last.op = "logout"
    /\ Truthy(last.tok)
    /\ last.user # NoUser
    /\ \E i \in Slots : calls[i].kind \in {"login", "register"}

\* C5: the completion of a login or register call that was in flight when
\* logout ran changes neither token nor user.
C5_StaleResultIgnored ==
    [][(last'.op \in {"loginOk", "registerOk"} /\ last'.stale) =>
          (token' = token /\ user' = user)]_vars

\* C6: a startup restore whose profile call is rejected ends logged out: no
\* token, no user, status ready, nothing signalled to a caller, and, once the
\* token effect has run, no persisted token and no default credential.
C6_RejectedRestoreLogsOut ==
    phase = "restoreFailed" =>
        /\ token = Null
        /\ user = NoUser
        /\ loading = FALSE
        /\ error = Null
        /\ last.msg = Null
        /\ ~effectsPending => (localStorage.token = Null /\ hdr = Null)

C6_Witness ==
    /\ phase = "restoreFailed"
    /\ ~effectsPending
    /\ last.op = "effects"

\* C7: whenever a profile fetch fails, token and user are both cleared, and
\* the persisted token is gone once the token effect has run.
C7_ProfileFailureClearsAll ==
    last.op = "meFail" =>
        /\ token = Null
        /\ user = NoUser
        /\ ~effectsPending => localStorage.token = Null

\* C8: in every reachable state of the standalone module, isAdmin() is true
\* only when isAuthenticated() is true.
C8_AdminImpliesAuthenticated == isAdmin => isAuthenticated

\* C9: isAdmin() is false whenever no user is stored, token or no token.
C9_AdminFailsClosed == ~Truthy(localStorage.user) => isAdmin = FALSE

C9_Witness ==
    /\ ~Truthy(localStorage.user)
    /\ isAuthenticated
    /\ last.op = "fetchUserProfileOk"

\* C10: once the token effect has run the default Authorization header is
\* 'Bearer <token>' for the current token, or missing when there is none;
\* every call carries the credential of the token current when it is issued,
\* and the profile fetch a token change triggers carries that token.
C10_HeaderFollowsToken ==
    [][/\ ~effectsPending' =>
            hdr' = (IF Truthy(token') THEN "Bearer " \o token' ELSE Null)
       /\ \A i \in Slots :
            (calls[i].kind = "none" /\ calls'[i].kind # "none") =>
               /\ calls'[i].auth =
                     (IF Truthy(token') THEN "Bearer " \o token' ELSE Null)
               /\ calls'[i].kind = "me" => calls'[i].tok = token']_vars

C10_Witness ==
    /\ phase = "used"
    /\ last.op = "effects"
    /\ hdr = "Bearer tok2"
    /\ \E i \in Slots :
          calls[i] = [kind |-> "me", tok |-> "tok2", auth |-> "Bearer tok2",
                      stale |-> FALSE, startup |-> FALSE]

\* C11: whenever no token effect is pending, the 'token' item of storage
\* holds exactly the in-memory token, and is missing exactly when it is null.
C11_StorageFollowsToken == ~effectsPending => localStorage.token = token

C11_Witness ==
    /\ ~effectsPending
    /\ phase = "used"
    /\ token = Null
    /\ localStorage.token = Null
    /\ last.op = "effects"
    /\ hdr = Null

\* C12: in every state where a login or register call is in flight, status
\* is loading.
C12_LoadingWhileCallInFlight ==
    (\E i \in Slots : calls[i].kind \in {"login", "register"}) => loading = TRUE

\* C13: provided every issued call completes, status never stays loading:
\* it is ready whenever the mount effects have run and no call is in flight,
\* and from every loading state a ready state follows.
C13_StatusBecomesReady ==
    /\ []((phase # "boot" /\ \A i \in Slots : calls[i].kind = "none")
             => loading = FALSE)
    /\ (loading = TRUE) ~> (loading = FALSE)

C13_Witness ==
    /\ last.op = "registerFail"
    /\ loading = FALSE
    /\ \A i \in Slots : calls[i].kind = "none"
    /\ phase = "used"

\* C14: at startup without a persisted token status becomes ready with token
\* and user absent and no call issued; with one, status is loading for as
\* long as the profile fetch of the mount effects is in flight.
C14_StartupStatus ==
    /\ phase = "boot" => loading = TRUE
    /\ phase = "fresh" =>
          /\ loading = FALSE
          /\ token = Null
          /\ user = NoUser
          /\ \A i \in Slots : calls[i].kind = "none"
    /\ \A i \in Slots : calls[i].startup => loading = TRUE

\* C15: after a startup restore whose profile call returned u for the
\* persisted token t, the token is still t (in memory and in storage), user
\* is u, status is ready and the admin flag read from the session is u's.
C15_RestoreSuccess ==
    phase = "restored" =>
        /\ last.op = "meOk"
        /\ Truthy(token)
        /\ token = last.tok
        /\ localStorage.token = token
        /\ user = last.user
        /\ loading = FALSE
        /\ userIsAdmin = last.user.is_admin

C15_Witness ==
    /\ phase = "restored"
    /\ token = "tok1"
    /\ user = User1
    /\ user.credits = 5
    /\ ~userIsAdmin

\* C16: a failed login or register sets error to the message of the failure
\* payload when that is present and non-empty and to 'Login failed' /
\* 'Registration failed' otherwise, throws that same string, and leaves
\* token and user as they were.
C16_FailureMessage ==
    [][last'.op \in {"loginFail", "registerFail"} =>
          /\ error' = (IF last'.payload \notin {Null, ""} THEN last'.payload
                       ELSE IF last'.op = "loginFail" THEN "Login failed"
                       ELSE "Registration failed")
          /\ last'.msg = error'
          /\ token' = token
          /\ user' = user]_vars

C16_Witness ==
    /\ last.op = "loginFail"
    /\ last.payload = "Invalid credentials"
    /\ error = "Invalid credentials"
    /\ token = Null
    /\ user = NoUser

\* C17 (as stated): the only profile fetch ever issued is the one of the
\* mount effects; login, register and logout cause no further one.
C17_OnlyStartupFetch ==
    \A i \in Slots : calls[i].kind = "me" => calls[i].startup

\* C17 (amended): a profile fetch is issued only by the token effects, for
\* the token just committed, at startup or right after a login or register
\* response; one per run of the effects, none after logout or a failure.
C17_FetchPerTokenChange ==
    [][(\E i \in Slots : calls[i].kind = "none" /\ calls'[i].kind = "me") =>
          /\ last'.op = "effects"
          /\ last.op \in {"init", "loginOk", "registerOk"}
          /\ Truthy(token')
          /\ Cardinality({i \in Slots : calls[i] # calls'[i]}) = 1
          /\ \A i \in Slots :
                (calls[i].kind = "none" /\ calls'[i].kind = "me") =>
                    calls'[i].tok = token']_vars

C17_Witness ==
    /\ last.op = "effects"
    /\ \E i \in Slots :
          /\ calls[i].kind = "me"
          /\ ~calls[i].startup
          /\ calls[i].tok = token

\* C18: after the startup profile fetch has failed no profile call is in
\* flight or issued, and the session stays without token and user; a token
\* only ever appears again with a login or register response.
C18_NoRetry ==
    [][/\ phase' = "restoreFailed" =>
            /\ token' = Null
            /\ user' = NoUser
            /\ \A i \in Slots : calls'[i].kind = "none"
       /\ (~Truthy(token) /\ Truthy(token')) =>
            last'.op \in {"loginOk", "registerOk"}]_vars

C18_Witness ==
    /\ phase = "restoreFailed"
    /\ ~effectsPending
    /\ localStorage.token = Null
    /\ \A i \in Slots : calls[i].kind = "none"

\* C19: register has the contract of login.  Starting either sets loading
\* and clears error and nothing else; a response sets token and user from
\* the payload, ends loading and leaves error and storage to the effect; a
\* failure leaves token, user and storage alone, ends loading, and sets error
\* to the thrown, non-empty message (the payload's when it has one).  The
\* state after each step is the same function of the state before and of the
\* collaborator's outcome for both.
C19_RegisterLikeLogin ==
    [][/\ last'.op \in {"login", "register"} =>
            /\ loading' = TRUE
            /\ error' = Null
            /\ UNCHANGED <<token, user, localStorage, hdr, effectsPending>>
       /\ last'.op \in {"loginOk", "registerOk"} =>
            /\ token' = last'.tok
            /\ user' = last'.user
            /\ loading' = FALSE
            /\ effectsPending' = (token' # token)
            /\ UNCHANGED <<error, localStorage, hdr>>
       /\ last'.op \in {"loginFail", "registerFail"} =>
            /\ loading' = FALSE
            /\ error' = last'.msg
            /\ Truthy(last'.msg)
            /\ Truthy(last'.payload) => last'.msg = last'.payload
            /\ UNCHANGED <<token, user, localStorage, hdr, effectsPending>>]_vars

C19_Witness ==
    /\ last.op = "registerOk"
    /\ token = "tok2"
    /\ user = User2
    /\ loading = FALSE
    /\ effectsPending
    /\ localStorage.token = "tok1"

\* C20: the wrapper never starts showing the wrapped component in a state
\* where no token is stored; mounted without a token, or when the profile
\* fetch has failed, it sends the navigation to /login and does not show it.
C20_GateNeedsToken ==
    [][/\ (gate # "content" /\ gate' = "content") => Truthy(localStorage'.token)
       /\ (last'.op = "checkAuth" /\ ~Truthy(localStorage.token)) =>
             (href' = "/login" /\ gate' # "content")
       /\ last'.op = "checkAuthFail" =>
             (href' = "/login" /\ gate' # "content")]_vars

\* C21: for as long as the profile fetch the wrapper issued for the stored
\* token is in flight, the wrapper shows the pending state and not the
\* wrapped component, and it does not send the navigation anywhere: any
\* change of location in that time is a logout made elsewhere.
C21_PendingWhileFetching ==
    [][(\E i \in Slots : mcalls'[i].kind = "checkAuth") =>
          /\ gate' = "pending"
          /\ href' # href => last'.op \in {"logout", "fetchUserProfileFail"}]_vars

C21_Witness ==
    /\ last.op = "checkAuth"
    /\ isAuthenticated
    /\ gate = "pending"
    /\ href = Null
    /\ \E i \in Slots : mcalls[i].kind = "checkAuth" /\ Truthy(mcalls[i].auth)

\* C22 (as stated): every logout of the AuthProvider sends the navigation
\* layer to the login entry point.
C22_EveryLogoutNavigates ==
    [][last'.op \in {"logout", "handleLogout"} => href' = "/login"]_vars

\* C22 (amended): logout can be taken in every state, with or without a
\* token and with calls in flight; it clears token and user in one step and
\* raises nothing (error and loading stay as they were).  The context's
\* logout() leaves the location alone; the move to /login is made by its
\* caller Layout.handleLogout, and by the logout of the standalone module.
C22_LogoutCannotFail ==
    /\ [](~effectsPending => (ENABLED logout /\ ENABLED handleLogout))
    /\ [](phase = "module" => ENABLED moduleLogout)
    /\ [][/\ last'.op \in {"logout", "handleLogout"} =>
               /\ token' = Null
               /\ user' = NoUser
               /\ localStorage'.token = Null
               /\ UNCHANGED <<error, loading>>
               /\ \A i \in Slots : calls'[i].kind = calls[i].kind
          /\ (last'.op = "logout" /\ phase' = "used") => href' = href
          /\ last'.op = "handleLogout" => href' = "/login"
          /\ (last'.op = "logout" /\ phase' = "module") => href' = "/login"]_vars

C22_Witness ==
    /\ last.op = "handleLogout"
    /\ last.tok = Null
    /\ href = "/login"
    /\ \E i \in Slots : calls[i].kind = "login"

\* C23: a failed profile fetch never touches error and throws nothing to a
\* caller; when it is the fetch of the startup restore, error is still
\* absent afterwards and token and user are absent.
C23_RestoreFailureSilent ==
    [][/\ last'.op = "meFail" =>
            /\ error' = error
            /\ last'.msg = Null
            /\ last'.payload = Null
       /\ (phase = "restoring" /\ phase' = "restoreFailed") =>
            /\ error' = Null
            /\ token' = Null
            /\ user' = NoUser]_vars

C23_Witness ==
    /\ last.op = "meFail"
    /\ phase = "restoreFailed"
    /\ effectsPending
    /\ error = Null
    /\ token = Null
    /\ user = NoUser
    /\ Truthy(localStorage.token)

\* C24 (as stated): no operation writes a user profile to storage; the
\* 'user' item is never given a value.
C24_OnlyTokenKeyWritten ==
    [][localStorage'.user \in {localStorage.user, Null}]_vars

\* C24 (amended): the AuthProvider writes the 'token' item alone.  The
\* standalone module keeps two items: saveUser writes 'token' and 'user'
\* (the JSON text of the profile) together, a profile fetch that returned a
\* record rewrites 'user' alone, and logout, also the one a failed fetch
\* makes, removes both; nothing else changes 'user'.
C24_PersistedKeys ==
    [][/\ phase' # "module" => localStorage'.user = localStorage.user
       /\ (last'.op \in {"loginUserOk", "registerUserOk"} /\ Truthy(last'.tok)) =>
             localStorage' = [token |-> last'.tok, user |-> JSONstringify(last'.user)]
       /\ (phase' = "module" /\ localStorage'.user # localStorage.user) =>
             \/ /\ last'.op \in {"loginUserOk", "registerUserOk"}
                /\ Truthy(last'.tok)
             \/ /\ last'.op \in {"fetchUserProfileOk", "checkAuthOk"}
                /\ last'.user # NoUser
                /\ localStorage'.user = JSONstringify(last'.user)
                /\ localStorage'.token = localStorage.token
             \/ /\ last'.op \in {"logout", "fetchUserProfileFail", "checkAuthFail"}
                /\ localStorage' = [token |-> Null, user |-> Null]]_vars

C24_Witness ==
    /\ last.op = "registerUserOk"
    /\ localStorage.token = "tok2"
    /\ localStorage.user = JSONstringify(User2)
    /\ JSONparse(localStorage.user).is_admin

\* C25: while a token and a user are held, the completion of a profile
\* fetch that was issued for another, earlier token changes neither user
\* (when it succeeds) nor token (when it fails).
C25_EarlierFetchIgnored ==
    [][(Truthy(token) /\ user # NoUser /\ last'.tok # token) =>
          /\ last'.op = "meOk" => user' = user
          /\ last'.op = "meFail" => token' = token]_vars

\* C26: in every reachable state of the standalone module the 'user' item
\* is in storage only if the 'token' item is.
C26_UserItemOnlyWithToken ==
    localStorage.user # Null => localStorage.token # Null

\* C27: every request the helper sends carries 'Bearer <token>' for the
\* token storage holds when the call is made, and no Authorization header
\* when storage holds none; for apiRequest and convertFile alike.
C27_AuthorizationOnlyWithToken ==
    [][\A i \in Slots :
          (mcalls[i].kind = "none" /\ mcalls'[i].kind # "none") =>
              mcalls'[i].auth = (IF Truthy(localStorage.token)
                                 THEN "Bearer " \o localStorage.token
                                 ELSE Null)]_vars

\* C28: a login or register clears error when it starts; right after a
\* login or register response error is absent; and error only changes by
\* being cleared at a start or set to the message of the attempt that has
\* just failed.
C28_ErrorOfLatestAttempt ==
    [][/\ last'.op \in {"login", "register"} => error' = Null
       /\ last'.op \in {"loginOk", "registerOk"} => error' = Null
       /\ error' # error =>
             \/ last'.op \in {"login", "register"} /\ error' = Null
             \/ last'.op \in {"loginFail", "registerFail"} /\ error' = last'.msg]_vars

\* C29: in every step that keeps the entries of the list, the status of each
\* entry stays where it is or moves forward in uploading, converting,
\* completed / error; a completed entry never becomes converting again.
C29_StatusMovesForward ==
    [][Len(files') >= Len(files) =>
          \A k \in 1..Len(files) :
              Rank(files'[k].status) >= Rank(files[k].status)]_vars

\* C30: a tab change empties the list; an empty list only gets entries by a
\* drop; and a timeout callback that was pending when the tab changed leaves
\* the list as it finds it, whatever has been dropped since.
C30_TabChangeEmptiesList ==
    [][/\ fcLast'.op = "tabChange" => files' = <<>>
       /\ (files = <<>> /\ files' # <<>>) => fcLast'.op = "drop"
       /\ (fcLast'.op \in {"uploadDone", "convertDone"} /\ fcLast'.stale) =>
             files' = files]_vars

====
